---- MODULE Spec2Model ----
(***************************************************************************)
(* Endpoint lifecycle of the Windows network backend (newEndpointImpl,     *)
(* deleteEndpointImpl, ConstructEndpointID) against an HNS-like external   *)
(* subsystem.  Go strings are sequences of one-character strings, so that  *)
(* len(), slicing and strings.Split are computed, not assumed.             *)
(***************************************************************************)
EXTENDS Integers, Sequences, FiniteSets, TLC

VARIABLES
    epInfo,       \* per call: the *EndpointInfo argument of newEndpointImpl
    hnsEndpoint,  \* per call: local hnsEndpoint (the descriptor), <<>> until built
    pc,           \* per call: position inside newEndpointImpl
    vlanid,       \* per call: local vlanid
    infraEpName,  \* per call: local infraEpName
    hnsResponse,  \* per call: local hnsResponse (create response)
    err,          \* per call: local err of newEndpointImpl
    ret,          \* per call: the (ep, err) result of the return statement
    panicMsg,     \* per call: run-time panic raised inside the call, "" if none
    delCalls,     \* per call: number of deleteEndpointImpl invocations on its record
    delRet,       \* per call: result of the last deleteEndpointImpl invocation
    hns,          \* external subsystem: the endpoints it holds
    nextId,       \* external subsystem: number of identifiers handed out
    reqlog,       \* external subsystem: every request received, in order
    cidArgs,      \* arguments of a direct ConstructEndpointID call
    cidResult     \* its result, <<>> before the call

VARIABLES
    infoTarget,   \* per call: Data of the *EndpointInfo handed to getInfoImpl
    infoPc        \* per call: "ready", "done" or "panicked" for getInfoImpl

infoVars == <<infoTarget, infoPc>>

VARIABLES
    hnsAddrs      \* external subsystem: the <<MAC, gateway>> strings it may assign

VARIABLES
    addrArg,      \* Listener: the localAddress argument of NewListener
    protocol,     \* Listener.protocol
    localAddress, \* Listener.localAddress
    l,            \* Listener.l: 0 for nil, else the socket it names
    mux,          \* Listener.mux: the handler registered per path
    sockets,      \* operating system: the sockets net.Listen created, by number
    files,        \* operating system: the socket files that exist
    serve,        \* per socket: the goroutine running http.Serve on it
    errChan,      \* the values the owner has received from errChan
    oplog,        \* the socket and file operations Start and Stop performed
    startRet,     \* the return values of the Start calls, in order
    stopCalls,    \* number of Stop calls
    lpanic,       \* run-time panic raised in a Listener method, "" if none
    requests      \* the requests the serving loops dispatched

lvars == <<addrArg, protocol, localAddress, l, mux, sockets, files, serve, errChan, oplog,
           startRet, stopCalls, lpanic, requests>>

VARIABLES
    decBody,      \* Decode: r.Body
    decW,         \* Decode: what was written to w
    decRet        \* Decode: its return value, <<>> before the call

dvars == <<decBody, decW, decRet>>

vars == <<epInfo, hnsEndpoint, pc, vlanid, infraEpName, hnsResponse, err, ret, panicMsg,
          delCalls, delRet, hns, nextId, reqlog, cidArgs, cidResult,
          infoTarget, infoPc, hnsAddrs, addrArg, protocol, localAddress, l, mux, sockets,
          files, serve, errChan, oplog, startRet, stopCalls, lpanic, requests,
          decBody, decW, decRet>>

callVars == <<epInfo, hnsEndpoint, pc, vlanid, infraEpName, hnsResponse, err, ret, panicMsg,
              delCalls, delRet, hns, nextId, reqlog>>

-----------------------------------------------------------------------------
(* Bounds *)

MaxIdLen == 10      \* longest identifier drawn (the code truncates at 8)
MaxParts == 3       \* most ':'-separated parts in a namespace path
MaxCalls == 2       \* call slots (concurrent newEndpointImpl invocations)
MaxDeletes == 2     \* deleteEndpointImpl invocations on one record

-----------------------------------------------------------------------------
(* Strings *)

IdChars == <<"0", "1", "2", "3", "4", "5", "6", "7", "8", "9", "a", "b", "c", "d">>
LinkChars == <<"z", "y", "x", "w", "v", "u", "t", "s", "r", "q", "p", "o", "n", "m">>

\* Go's s[:n]
Prefix(s, n) == SubSeq(s, 1, n)

ShortIDLen == 8

\* if len(s) > 8 { s = s[:8] }
Truncate(s) == IF Len(s) > ShortIDLen THEN Prefix(s, ShortIDLen) ELSE s

\* index of the first sep in s, 0 if none
IndexOf(s, sep) ==
    IF \E i \in 1..Len(s) : s[i] = sep
    THEN CHOOSE i \in 1..Len(s) : s[i] = sep /\ \A j \in 1..(i - 1) : s[j] # sep
    ELSE 0

\* strings.Split(s, sep) for a one-character separator
RECURSIVE Split(_, _)
Split(s, sep) ==
    LET i == IndexOf(s, sep)
    IN  IF i = 0 THEN <<s>>
        ELSE <<SubSeq(s, 1, i - 1)>> \o Split(SubSeq(s, i + 1, Len(s)), sep)

ConstructEndpointID_LooseMatch(containerID, netNsPath, ifName) ==
    LET cid == Truncate(containerID)
        splits == Split(netNsPath, ":")
    IN  IF Len(splits) >= 2
        THEN <<Truncate(splits[2]) \o <<"-">> \o ifName, cid \o <<"-">> \o ifName>>
        ELSE <<cid \o <<"-">> \o ifName, <<>>>>

\* ConstructEndpointID: <<infraEpName, workloadEpName>>
ConstructEndpointID(containerID, netNsPath, ifName) ==
    LET cid == Truncate(containerID)
        splits == Split(netNsPath, ":")
    IN  IF Len(splits) = 2
        THEN <<Truncate(splits[2]) \o <<"-">> \o ifName, cid \o <<"-">> \o ifName>>
        ELSE <<cid \o <<"-">> \o ifName, <<>>>>

-----------------------------------------------------------------------------
(* Inputs of a direct ConstructEndpointID call *)

ContainerIDs == {Prefix(IdChars, n) : n \in 0..MaxIdLen}

PathParts == {Prefix(LinkChars, n) : n \in {0, 3, ShortIDLen, MaxIdLen}}

RECURSIVE Join(_)
Join(parts) ==
    IF Len(parts) = 1 THEN parts[1]
    ELSE parts[1] \o <<":">> \o Join(Tail(parts))

NetNsPaths == {Join(ps) : ps \in UNION {[1..n -> PathParts] : n \in 1..MaxParts}}

IfNames == {<<"e", "t", "h", "0">>, <<>>}

-----------------------------------------------------------------------------
(* net package: the conversions newEndpointImpl calls *)

Nil == <<>>          \* a nil slice / nil net.IP / nil net.HardwareAddr
NoErr == "nil"       \* the nil error

LowerHex == <<"0", "1", "2", "3", "4", "5", "6", "7", "8", "9", "a", "b", "c", "d", "e", "f">>
UpperHex == <<"0", "1", "2", "3", "4", "5", "6", "7", "8", "9", "A", "B", "C", "D", "E", "F">>

\* value of one hexadecimal digit, -1 if ch is none
HexVal(ch) ==
    IF \E i \in 1..16 : LowerHex[i] = ch THEN (CHOOSE i \in 1..16 : LowerHex[i] = ch) - 1
    ELSE IF \E i \in 1..16 : UpperHex[i] = ch THEN (CHOOSE i \in 1..16 : UpperHex[i] = ch) - 1
    ELSE -1

\* xtoi2(s[x:], e): the two hex digits at x, followed (if anything follows) by e;
\* e = "" asks for no separator.  -1 if malformed.
Xtoi2(s, x, e) ==
    IF x + 1 > Len(s) THEN -1
    ELSE IF e # "" /\ Len(s) > x + 1 /\ s[x + 2] # e THEN -1
    ELSE IF HexVal(s[x]) < 0 \/ HexVal(s[x + 1]) < 0 THEN -1
    ELSE 16 * HexVal(s[x]) + HexVal(s[x + 1])

MacLens == {6, 8, 20}

\* net.ParseMAC: [hw, err]
ParseMAC(s) ==
    LET bad == [hw |-> Nil, err |-> "invalid MAC address"]
    IN  IF Len(s) < 14 THEN bad
        ELSE IF s[3] = ":" \/ s[3] = "-"
        THEN LET n == (Len(s) + 1) \div 3
                 hw == [i \in 1..n |-> Xtoi2(s, 3 * (i - 1) + 1, s[3])]
             IN  IF (Len(s) + 1) % 3 # 0 \/ n \notin MacLens THEN bad
                 ELSE IF \E i \in 1..n : hw[i] < 0 THEN bad
                 ELSE [hw |-> hw, err |-> NoErr]
        ELSE IF s[5] = "."
        THEN LET n == (2 * (Len(s) + 1)) \div 5
                 hw == [i \in 1..n |->
                          IF i % 2 = 1 THEN Xtoi2(s, 5 * ((i - 1) \div 2) + 1, "")
                          ELSE Xtoi2(s, 5 * ((i - 1) \div 2) + 3, s[5])]
             IN  IF (Len(s) + 1) % 5 # 0 \/ n \notin MacLens THEN bad
                 ELSE IF \E i \in 1..n : hw[i] < 0 THEN bad
                 ELSE [hw |-> hw, err |-> NoErr]
        ELSE bad

Decimal == <<"0", "1", "2", "3", "4", "5", "6", "7", "8", "9">>

DigitVal(ch) ==
    IF \E i \in 1..10 : Decimal[i] = ch THEN (CHOOSE i \in 1..10 : Decimal[i] = ch) - 1
    ELSE -1

\* one dotted-decimal field: 1 to 3 digits, no leading zero, at most 255; -1 if malformed
RECURSIVE DecimalField(_)
DecimalField(f) ==
    IF Len(f) = 0 \/ Len(f) > 3 THEN -1
    ELSE IF \E i \in 1..Len(f) : DigitVal(f[i]) < 0 THEN -1
    ELSE IF Len(f) > 1 /\ f[1] = "0" THEN -1
    ELSE LET v == IF Len(f) = 1 THEN DigitVal(f[1])
                  ELSE 10 * DecimalField(SubSeq(f, 1, Len(f) - 1)) + DigitVal(f[Len(f)])
         IN  IF v > 255 THEN -1 ELSE v

\* net.ParseIP on a string without ':' (the dotted-decimal form); nil if malformed
ParseIP(s) ==
    LET fields == Split(s, ".")
    IN  IF Len(fields) # 4 THEN Nil
        ELSE IF \E i \in 1..4 : DecimalField(fields[i]) < 0 THEN Nil
        ELSE [i \in 1..4 |-> DecimalField(fields[i])]

\* number of leading one bits of a byte of the form 1..10..0, -1 otherwise
ByteOnes(v) ==
    IF \E k \in 0..8 : v = 256 - 2 ^ (8 - k)
    THEN CHOOSE k \in 0..8 : v = 256 - 2 ^ (8 - k)
    ELSE -1

\* simpleMaskLength: ones of a canonical mask, -1 if the mask is not canonical
RECURSIVE SimpleMaskLength(_)
SimpleMaskLength(m) ==
    IF Len(m) = 0 THEN 0
    ELSE IF Head(m) = 255
    THEN LET r == SimpleMaskLength(Tail(m)) IN IF r < 0 THEN -1 ELSE 8 + r
    ELSE IF ByteOnes(Head(m)) < 0 THEN -1
    ELSE IF \E i \in 2..Len(m) : m[i] # 0 THEN -1
    ELSE ByteOnes(Head(m))

\* pl, _ := Mask.Size()
MaskSize(m) == IF SimpleMaskLength(m) < 0 THEN 0 ELSE SimpleMaskLength(m)

\* uint8(pl)
Uint8(n) == n % 256

-----------------------------------------------------------------------------
(* Endpoint specifications handed to newEndpointImpl *)

Calls == 1..MaxCalls

VlanIDKey == "VlanID"
DataKeys == {VlanIDKey, "hnsid"}

\* an interface{} value: its dynamic type and (for numbers) its value
Absent == [type |-> "absent", v |-> 0, s |-> ""]
AnyValue(t, n) == [type |-> t, v |-> n, s |-> ""]
StringValue(str) == [type |-> "string", v |-> 0, s |-> str]

\* a map[string]interface{}: nil, or a value (Absent if none) per key
NilMap == [isNil |-> TRUE, m |-> [k \in DataKeys |-> Absent]]
MapOf(vlan, other) == [isNil |-> FALSE, m |-> [k \in DataKeys |-> IF k = VlanIDKey THEN vlan ELSE other]]

DataChoices ==
    { NilMap,
      MapOf(Absent, Absent),
      MapOf(Absent, AnyValue("string", 0)),
      MapOf(AnyValue("int", 7), Absent),
      MapOf(AnyValue("float64", 7), Absent),
      MapOf(AnyValue("string", 7), Absent) }

\* a []net.IPNet: nil, or its elements
NilSlice == [isNil |-> TRUE, elems |-> <<>>]
SliceOf(elems) == [isNil |-> FALSE, elems |-> elems]

Addr1 == [IP |-> <<10, 0, 0, 4>>, Mask |-> <<255, 255, 255, 0>>]
Addr2 == [IP |-> <<10, 1, 0, 9>>, Mask |-> <<255, 255, 240, 0>>]
Addr3 == [IP |-> <<10, 2, 0, 5>>, Mask |-> <<255, 0, 255, 0>>]

IPAddressChoices ==
    { NilSlice, SliceOf(<<>>), SliceOf(<<Addr1>>), SliceOf(<<Addr2, Addr1>>),
      SliceOf(<<Addr3, Addr1, Addr2>>) }

Eth0 == <<"e", "t", "h", "0">>

IdentityChoices ==
    { [ContainerID |-> Prefix(IdChars, MaxIdLen), NetNsPath |-> <<"n", "o", "n", "e">>, IfName |-> Eth0],
      [ContainerID |-> Prefix(IdChars, MaxIdLen),
       NetNsPath |-> <<"c", "t", "r", ":">> \o Prefix(LinkChars, MaxIdLen), IfName |-> Eth0],
      [ContainerID |-> Prefix(IdChars, 3), NetNsPath |-> <<"a", ":", "b", ":", "c">>, IfName |-> Eth0] }

EndpointInfos ==
    { [ContainerID |-> i.ContainerID, NetNsPath |-> i.NetNsPath, IfName |-> i.IfName,
       IPAddresses |-> a, Data |-> d] :
      i \in IdentityChoices, a \in IPAddressChoices, d \in DataChoices }

PlainInfo ==
    [ContainerID |-> Prefix(IdChars, 3), NetNsPath |-> <<"n", "o", "n", "e">>, IfName |-> Eth0,
     IPAddresses |-> SliceOf(<<Addr1>>), Data |-> NilMap]

\* nw.HnsId of the owning network
NetworkHnsId == "net-1"

-----------------------------------------------------------------------------
(* The external subsystem (hcsshim.HNSEndpointRequest, hcsshim.HotAttachEndpoint) *)

CreateErrors == {"ErrCreate"}
AttachErrors == {"ErrAttach"}
DeleteErrors == {"ErrDelete"}
MarshalErrors == {"ErrMarshal"}

Mac1 == <<"0", "0", "-", "1", "5", "-", "5", "D", "-", "0", "A", "-", "0", "0", "-", "0", "4">>
MacShort == <<"0", "0", "-", "1", "5", "-", "5", "D", "-", "0", "A", "-", "0", "0">>
MacBadDigit == <<"0", "0", "-", "1", "5", "-", "5", "G", "-", "0", "A", "-", "0", "0", "-", "0", "4">>
WellFormedMacs == {Mac1}
MalformedMacs == {<<>>, MacShort, MacBadDigit}
MacStrings == WellFormedMacs \cup MalformedMacs

Gw1 == <<"1", "0", ".", "0", ".", "0", ".", "1">>
GwOutOfRange == <<"1", "0", ".", "0", ".", "0", ".", "2", "5", "6">>
WellFormedGateways == {Gw1}
MalformedGateways == {<<>>, GwOutOfRange}
GatewayStrings == WellFormedGateways \cup MalformedGateways

\* the identifier the subsystem gives its n-th endpoint
HnsIdOf(n) == "ep-" \o ToString(n)

NoResponse == [Id |-> "", MacAddress |-> <<>>, GatewayAddress |-> <<>>]

Request(c, fn, verb, id, container, body, response, result) ==
    [call |-> c, fn |-> fn, verb |-> verb, id |-> id, container |-> container,
     body |-> body, response |-> response, result |-> result]

\* the outcomes a DELETE of id can have: it cannot succeed on an unknown endpoint
DeleteOutcomes(id) ==
    IF \E e \in hns : e.Id = id THEN {NoErr} \cup DeleteErrors ELSE DeleteErrors

\* the subsystem's endpoints after a DELETE of id with outcome e
HnsAfterDelete(id, e) == IF e = NoErr THEN {x \in hns : x.Id # id} ELSE hns

\* the subsystem's endpoints after an attach of id with outcome e
HnsAfterAttach(id, e) ==
    IF e = NoErr
    THEN {IF x.Id = id THEN [x EXCEPT !.attached = TRUE] ELSE x : x \in hns}
    ELSE hns

-----------------------------------------------------------------------------
(* newEndpointImpl: its pure steps *)

\* lines 49-53: [panic, vlanid]; the unchecked assertion .(int) panics on any
\* dynamic type other than int
ExtractVlanID(data) ==
    IF data.isNil THEN [panic |-> FALSE, vlanid |-> 0]
    ELSE IF data.m[VlanIDKey].type = "absent" THEN [panic |-> FALSE, vlanid |-> 0]
    ELSE IF data.m[VlanIDKey].type = "int" THEN [panic |-> FALSE, vlanid |-> data.m[VlanIDKey].v]
    ELSE [panic |-> TRUE, vlanid |-> 0]

\* lines 59-72: [panic, d]; IPAddresses[0] panics on a non-nil slice of length 0
BuildHNSEndpoint(info, name) ==
    LET base == [Name |-> name, VirtualNetwork |-> NetworkHnsId,
                 IPAddress |-> Nil, PrefixLength |-> 0]
    IN  IF info.IPAddresses.isNil THEN [panic |-> FALSE, d |-> base]
        ELSE IF Len(info.IPAddresses.elems) = 0 THEN [panic |-> TRUE, d |-> base]
        ELSE [panic |-> FALSE,
              d |-> [base EXCEPT !.IPAddress = info.IPAddresses.elems[1].IP,
                                 !.PrefixLength = Uint8(MaskSize(info.IPAddresses.elems[1].Mask))]]

PcAfterCreate_FallThrough(e) == "attach"

\* lines 85-87: where control goes after the create request
PcAfterCreate(e) == IF e # NoErr THEN "returned" ELSE "attach"

RollbackNeeded_Never(e) == FALSE

RollbackNeeded_Always(e) == TRUE

\* line 90: the deferred function's guard
RollbackNeeded(e) == e # NoErr

RollbackTarget_Network(resp) == NetworkHnsId

RollbackTarget_LastCreated(resp) == HnsIdOf(nextId)

\* line 92: the identifier the deferred DELETE names
RollbackTarget(resp) == resp.Id

DeferredResult_Overwrite(r, delErr) == [r EXCEPT !.err = delErr]

\* lines 89-95: what the deferred function leaves of the result already set by
\* the return statement; its own err is a new variable (:= at line 92)
DeferredResult(r, delErr) == r

NewEndpointRecord_GatewayFromMac(info, name, resp, vlan) ==
    [Id |-> name, HnsId |-> resp.Id, SandboxKey |-> info.ContainerID, IfName |-> info.IfName,
     IPAddresses |-> info.IPAddresses, Gateways |-> <<ParseIP(resp.MacAddress)>>,
     VlanID |-> vlan, MacAddress |-> ParseMAC(resp.MacAddress).hw]

\* lines 106-122: the endpoint object
NewEndpointRecord(info, name, resp, vlan) ==
    [Id |-> name, HnsId |-> resp.Id, SandboxKey |-> info.ContainerID, IfName |-> info.IfName,
     IPAddresses |-> info.IPAddresses, Gateways |-> <<ParseIP(resp.GatewayAddress)>>,
     VlanID |-> vlan, MacAddress |-> ParseMAC(resp.MacAddress).hw]

NoResult == [ep |-> <<>>, err |-> NoErr]

AttachResult_StrictParse(e, rec, resp) ==
    IF e # NoErr THEN [ep |-> <<>>, err |-> e]
    ELSE IF ParseMAC(resp.MacAddress).err # NoErr \/ ParseIP(resp.GatewayAddress) = Nil
    THEN [ep |-> <<>>, err |-> "invalid address"]
    ELSE [ep |-> <<rec>>, err |-> NoErr]

\* lines 100-103 and 124: the operands of the return statement after the attach
AttachResult(e, rec, resp) ==
    IF e # NoErr THEN [ep |-> <<>>, err |-> e] ELSE [ep |-> <<rec>>, err |-> NoErr]

DeleteResult_Swallow(e) == NoErr

\* line 134: return err
DeleteResult(e) == e

-----------------------------------------------------------------------------
(* newEndpointImpl: its steps, split at the blocking calls *)

\* lines 47-79: VLAN tag, identifiers, descriptor, marshalling
Build(c) ==
    /\ pc[c] = "start"
    /\ LET info == epInfo[c]
           vl == ExtractVlanID(info.Data)
           name == ConstructEndpointID(info.ContainerID, info.NetNsPath, info.IfName)[1]
           built == BuildHNSEndpoint(info, name)
       IN  IF vl.panic
           THEN /\ pc' = [pc EXCEPT ![c] = "panicked"]
                /\ panicMsg' = [panicMsg EXCEPT ![c] = "interface conversion"]
                /\ UNCHANGED <<vlanid, infraEpName, hnsEndpoint, err, ret>>
           ELSE IF built.panic
           THEN /\ pc' = [pc EXCEPT ![c] = "panicked"]
                /\ panicMsg' = [panicMsg EXCEPT ![c] = "index out of range"]
                /\ vlanid' = [vlanid EXCEPT ![c] = vl.vlanid]
                /\ infraEpName' = [infraEpName EXCEPT ![c] = name]
                /\ UNCHANGED <<hnsEndpoint, err, ret>>
           ELSE /\ vlanid' = [vlanid EXCEPT ![c] = vl.vlanid]
                /\ infraEpName' = [infraEpName EXCEPT ![c] = name]
                /\ hnsEndpoint' = [hnsEndpoint EXCEPT ![c] = <<built.d>>]
                /\ \E e \in {NoErr} \cup MarshalErrors :
                      /\ err' = [err EXCEPT ![c] = e]
                      /\ IF e # NoErr
                         THEN /\ ret' = [ret EXCEPT ![c] = [ep |-> <<>>, err |-> e]]
                              /\ pc' = [pc EXCEPT ![c] = "returned"]
                         ELSE /\ ret' = ret
                              /\ pc' = [pc EXCEPT ![c] = "create"]
                /\ UNCHANGED panicMsg
    /\ UNCHANGED <<epInfo, hnsResponse, delCalls, delRet, hns, nextId, reqlog, cidArgs, cidResult, infoVars, hnsAddrs, lvars, dvars>>

\* lines 81-87: the create request
Create(c) ==
    /\ pc[c] = "create"
    /\ \/ \E e \in CreateErrors :
             /\ reqlog' = Append(reqlog, Request(c, "newEndpointImpl", "POST", "", <<>>,
                                                 hnsEndpoint[c], NoResponse, e))
             /\ err' = [err EXCEPT ![c] = e]
             /\ pc' = [pc EXCEPT ![c] = PcAfterCreate(e)]
             /\ ret' = [ret EXCEPT ![c] = IF PcAfterCreate(e) = "returned"
                                            THEN [ep |-> <<>>, err |-> e] ELSE @]
             /\ UNCHANGED <<hnsResponse, hns, nextId>>
       \/ \E mac \in MacStrings, gw \in GatewayStrings :
             LET resp == [Id |-> HnsIdOf(nextId + 1), MacAddress |-> mac, GatewayAddress |-> gw]
             IN  /\ <<mac, gw>> \in hnsAddrs
                 /\ reqlog' = Append(reqlog, Request(c, "newEndpointImpl", "POST", "", <<>>,
                                                     hnsEndpoint[c], resp, NoErr))
                 /\ hns' = hns \cup {[Id |-> resp.Id, MacAddress |-> mac, GatewayAddress |-> gw,
                                      attached |-> FALSE, by |-> c]}
                 /\ nextId' = nextId + 1
                 /\ hnsResponse' = [hnsResponse EXCEPT ![c] = resp]
                 /\ err' = [err EXCEPT ![c] = NoErr]
                 /\ pc' = [pc EXCEPT ![c] = PcAfterCreate(NoErr)]
                 /\ ret' = ret
    /\ UNCHANGED <<epInfo, hnsEndpoint, vlanid, infraEpName, panicMsg, delCalls, delRet,
                   cidArgs, cidResult, infoVars, hnsAddrs, lvars, dvars>>

\* lines 97-124: the attach and the return statement that follows it; the
\* deferred function has not run yet
Attach(c) ==
    /\ pc[c] = "attach"
    /\ \E e \in {NoErr} \cup AttachErrors :
          /\ reqlog' = Append(reqlog, Request(c, "newEndpointImpl", "ATTACH", hnsResponse[c].Id,
                                              epInfo[c].ContainerID, <<>>, NoResponse, e))
          /\ hns' = HnsAfterAttach(hnsResponse[c].Id, e)
          /\ err' = [err EXCEPT ![c] = e]
          /\ ret' = [ret EXCEPT ![c] =
                        AttachResult(e, NewEndpointRecord(epInfo[c], infraEpName[c],
                                                          hnsResponse[c], vlanid[c]),
                                     hnsResponse[c])]
    /\ pc' = [pc EXCEPT ![c] = "deferred"]
    /\ UNCHANGED <<epInfo, hnsEndpoint, vlanid, infraEpName, hnsResponse, panicMsg, delCalls,
                   delRet, nextId, cidArgs, cidResult, infoVars, hnsAddrs, lvars, dvars>>

\* lines 89-95: the deferred function, run after the return statement
Deferred(c) ==
    /\ pc[c] = "deferred"
    /\ IF RollbackNeeded(err[c])
       THEN LET id == RollbackTarget(hnsResponse[c])
            IN  \E e \in DeleteOutcomes(id) :
                   /\ reqlog' = Append(reqlog, Request(c, "newEndpointImpl", "DELETE", id, <<>>,
                                                       <<>>, NoResponse, e))
                   /\ hns' = HnsAfterDelete(id, e)
                   /\ ret' = [ret EXCEPT ![c] = DeferredResult(@, e)]
       ELSE UNCHANGED <<reqlog, hns, ret>>
    /\ pc' = [pc EXCEPT ![c] = "returned"]
    /\ UNCHANGED <<epInfo, hnsEndpoint, vlanid, infraEpName, hnsResponse, err, panicMsg,
                   delCalls, delRet, nextId, cidArgs, cidResult, infoVars, hnsAddrs, lvars, dvars>>

\* lines 127-135: deleteEndpointImpl on the record a call returned
Deprovision(c) ==
    /\ pc[c] = "returned"
    /\ ret[c].ep # <<>>
    /\ delCalls[c] < MaxDeletes
    /\ LET ep == ret[c].ep[1]
       IN  \E e \in DeleteOutcomes(ep.HnsId) :
              /\ reqlog' = Append(reqlog, Request(c, "deleteEndpointImpl", "DELETE", ep.HnsId,
                                                  <<>>, <<>>, NoResponse, e))
              /\ hns' = HnsAfterDelete(ep.HnsId, e)
              /\ delRet' = [delRet EXCEPT ![c] = DeleteResult(e)]
    /\ delCalls' = [delCalls EXCEPT ![c] = @ + 1]
    /\ UNCHANGED <<epInfo, hnsEndpoint, pc, vlanid, infraEpName, hnsResponse, err, ret,
                   panicMsg, nextId, cidArgs, cidResult, infoVars, hnsAddrs, lvars, dvars>>

\* a direct call of ConstructEndpointID
CallConstructEndpointID ==
    /\ cidResult = <<>>
    /\ cidResult' = <<ConstructEndpointID(cidArgs.ContainerID, cidArgs.NetNsPath, cidArgs.IfName)>>
    /\ UNCHANGED <<cidArgs, callVars, infoVars, hnsAddrs, lvars, dvars>>

-----------------------------------------------------------------------------
(* getInfoImpl *)

HnsIdKey == "hnsid"

\* the Data of the *EndpointInfo a caller hands to getInfoImpl
InfoTargets ==
    { NilMap,
      MapOf(Absent, Absent),
      MapOf(AnyValue("int", 7), Absent),
      MapOf(AnyValue("int", 7), StringValue("stale")) }

NoTarget == [arg |-> NilMap, data |-> NilMap]

GetInfoData_FreshMap(data, hnsId) ==
    [isNil |-> FALSE,
     m |-> [k \in DataKeys |-> IF k = HnsIdKey THEN StringValue(hnsId) ELSE Absent]]

\* line 139: epInfo.Data["hnsid"] = ep.HnsId, on a non-nil map
GetInfoData(data, hnsId) == [data EXCEPT !.m[HnsIdKey] = StringValue(hnsId)]

\* lines 137-140: getInfoImpl on the record a call returned; assigning to an
\* entry of a nil map panics
GetInfo(c) ==
    /\ pc[c] = "returned"
    /\ ret[c].ep # <<>>
    /\ infoPc[c] = "ready"
    /\ \E t \in InfoTargets :
          IF t.isNil
          THEN /\ infoPc' = [infoPc EXCEPT ![c] = "panicked"]
               /\ infoTarget' = [infoTarget EXCEPT ![c] = [arg |-> t, data |-> t]]
          ELSE /\ infoPc' = [infoPc EXCEPT ![c] = "done"]
               /\ infoTarget' = [infoTarget EXCEPT ![c] =
                                    [arg |-> t, data |-> GetInfoData(t, ret[c].ep[1].HnsId)]]
    /\ UNCHANGED <<callVars, cidArgs, cidResult, hnsAddrs, lvars, dvars>>

InfoInit ==
    /\ infoTarget = [c \in Calls |-> NoTarget]
    /\ infoPc = [c \in Calls |-> "ready"]

-----------------------------------------------------------------------------
(* Listener: construction *)

Paths == {"/a", "/b"}
Handlers == {"hA", "hB"}
NoHandler == "none"

SockSuffix == ".sock"

NewLocalAddress_AlwaysSuffix(proto, addr) == addr \o SockSuffix

\* NewListener, lines 26-33: the address the listener keeps
NewLocalAddress(proto, addr) ==
    IF proto = "unix" /\ addr # "" THEN addr \o SockSuffix ELSE addr

\* NewListener, lines 25-38: the state after construction
ListenerInit(proto, addr) ==
    /\ addrArg = addr
    /\ protocol = proto
    /\ localAddress = NewLocalAddress(proto, addr)
    /\ l = 0
    /\ mux = [p \in Paths |-> NoHandler]
    /\ sockets = <<>>
    /\ files = {}
    /\ serve = <<>>
    /\ errChan = <<>>
    /\ oplog = <<>>
    /\ startRet = <<>>
    /\ stopCalls = 0
    /\ lpanic = ""
    /\ requests = <<>>

-----------------------------------------------------------------------------
(* Listener.Decode: request bodies and responses *)

\* r.Body: nil, or the JSON tokens it holds
NoBody == [isNil |-> TRUE, toks |-> <<>>]
BodyOf(toks) == [isNil |-> FALSE, toks |-> toks]

\* a response: nothing written, or status, content type and body
NoWrite == [status |-> 0, contentType |-> "", body |-> <<>>]

DecodeInit(bodies) ==
    /\ decBody \in bodies
    /\ decW = NoWrite
    /\ decRet = <<>>

-----------------------------------------------------------------------------
(* Specifications *)

InitCall(infos, active) ==
    /\ \E f \in [active -> infos] :
          epInfo = [c \in Calls |-> IF c \in active THEN f[c] ELSE PlainInfo]
    /\ pc = [c \in Calls |-> IF c \in active THEN "start" ELSE "idle"]
    /\ hnsEndpoint = [c \in Calls |-> <<>>]
    /\ vlanid = [c \in Calls |-> 0]
    /\ infraEpName = [c \in Calls |-> <<>>]
    /\ hnsResponse = [c \in Calls |-> NoResponse]
    /\ err = [c \in Calls |-> NoErr]
    /\ ret = [c \in Calls |-> NoResult]
    /\ panicMsg = [c \in Calls |-> ""]
    /\ delCalls = [c \in Calls |-> 0]
    /\ delRet = [c \in Calls |-> NoErr]
    /\ hns = {}
    /\ nextId = 0
    /\ reqlog = <<>>

NoDirectCall == [ContainerID |-> <<>>, NetNsPath |-> <<>>, IfName |-> <<>>]

\* one newEndpointImpl invocation on any endpoint specification, then
\* deleteEndpointImpl invocations on the record it returned
Init ==
    /\ InitCall(EndpointInfos \cup {PlainInfo}, {1})
    /\ hnsAddrs = MacStrings \X GatewayStrings
    /\ cidArgs = NoDirectCall
    /\ cidResult = <<>>
    /\ InfoInit
    /\ ListenerInit("tcp", "")
    /\ DecodeInit({NoBody})

Next ==
    \E c \in Calls :
        Build(c) \/ Create(c) \/ Attach(c) \/ Deferred(c) \/ Deprovision(c) \/ GetInfo(c)

Spec == Init /\ [][Next]_vars

\* ConstructEndpointID alone, on every identifier and namespace path drawn
InitID ==
    /\ InitCall({PlainInfo}, {})
    /\ hnsAddrs = {}
    /\ cidArgs \in [ContainerID : ContainerIDs, NetNsPath : NetNsPaths, IfName : IfNames]
    /\ cidResult = <<>>
    /\ InfoInit
    /\ ListenerInit("tcp", "")
    /\ DecodeInit({NoBody})

NextID == CallConstructEndpointID

SpecID == InitID /\ [][NextID]_vars

-----------------------------------------------------------------------------
(* What the external subsystem saw of one newEndpointImpl invocation *)

ProvisionLog(c) == SelectSeq(reqlog, LAMBDA r : r.call = c /\ r.fn = "newEndpointImpl")

RequestsOf(c, verb) == SelectSeq(ProvisionLog(c), LAMBDA r : r.verb = verb)

CreateSucceeded(c) == Len(RequestsOf(c, "POST")) > 0 /\ RequestsOf(c, "POST")[1].result = NoErr
CreateFailed(c) == Len(RequestsOf(c, "POST")) > 0 /\ RequestsOf(c, "POST")[1].result # NoErr
AttachSucceeded(c) == Len(RequestsOf(c, "ATTACH")) > 0 /\ RequestsOf(c, "ATTACH")[1].result = NoErr
AttachFailed(c) == Len(RequestsOf(c, "ATTACH")) > 0 /\ RequestsOf(c, "ATTACH")[1].result # NoErr

\* the subsystem's response to the call's create request
CreateResponse(c) == RequestsOf(c, "POST")[1].response

-----------------------------------------------------------------------------
(* Properties *)

\* C1: when create succeeds and attach fails, a returned newEndpointImpl has
\* issued exactly one DELETE, for the identifier the create returned, as its
\* last request, and returns a non-nil error and no endpoint.
C1_RollbackOnAttachFailure ==
    \A c \in Calls :
        (pc[c] = "returned" /\ CreateSucceeded(c) /\ AttachFailed(c)) =>
            /\ Len(RequestsOf(c, "DELETE")) = 1
            /\ RequestsOf(c, "DELETE")[1].id = CreateResponse(c).Id
            /\ ProvisionLog(c)[Len(ProvisionLog(c))].verb = "DELETE"
            /\ ret[c].ep = <<>>
            /\ ret[c].err # NoErr

C1_Witness ==
    \E c \in Calls :
        /\ pc[c] = "returned" /\ CreateSucceeded(c) /\ AttachFailed(c)
        /\ Len(RequestsOf(c, "DELETE")) = 1
        /\ ret[c].err \in AttachErrors

\* C2 as stated: once newEndpointImpl has returned, every endpoint it created
\* that is still in the subsystem is attached, whatever the rollback did.
C2_NoOrphanEver ==
    \A c \in Calls :
        pc[c] = "returned" => \A e \in hns : e.by = c => e.attached

\* C2 amended: once newEndpointImpl has returned, an endpoint it created is
\* still in the subsystem only if its attach succeeded or the rollback DELETE
\* issued for it failed.
C2_OrphanOnlyIfRollbackFailed ==
    \A c \in Calls :
        pc[c] = "returned" =>
            \A e \in hns :
                e.by = c =>
                    \/ e.attached
                    \/ \E i \in 1..Len(RequestsOf(c, "DELETE")) :
                          /\ RequestsOf(c, "DELETE")[i].id = e.Id
                          /\ RequestsOf(c, "DELETE")[i].result # NoErr

C2_Witness ==
    \E c \in Calls :
        /\ pc[c] = "returned" /\ CreateSucceeded(c) /\ AttachFailed(c)
        /\ RequestsOf(c, "DELETE")[1].result = NoErr
        /\ ~ \E e \in hns : e.by = c

\* C3: when attach fails, the error newEndpointImpl returns is the attach
\* error, whether the rollback DELETE succeeded or failed.
C3_AttachErrorReturned ==
    \A c \in Calls :
        (pc[c] = "returned" /\ AttachFailed(c)) =>
            ret[c].err = RequestsOf(c, "ATTACH")[1].result

C3_Witness ==
    \E c \in Calls :
        /\ pc[c] = "returned" /\ AttachFailed(c)
        /\ Len(RequestsOf(c, "DELETE")) = 1
        /\ RequestsOf(c, "DELETE")[1].result \in DeleteErrors
        /\ ret[c].err \in AttachErrors

\* C4: when create and attach both succeed, newEndpointImpl issues no DELETE
\* and returns a record whose HnsId, MAC address and gateway are those of the
\* subsystem's create response.
C4_RecordMatchesResponse ==
    \A c \in Calls :
        (pc[c] = "returned" /\ CreateSucceeded(c) /\ AttachSucceeded(c)) =>
            /\ Len(RequestsOf(c, "DELETE")) = 0
            /\ ret[c].ep # <<>>
            /\ ret[c].ep[1].HnsId = CreateResponse(c).Id
            /\ ret[c].ep[1].MacAddress = ParseMAC(CreateResponse(c).MacAddress).hw
            /\ ret[c].ep[1].Gateways = <<ParseIP(CreateResponse(c).GatewayAddress)>>
            /\ CreateResponse(c).MacAddress = Mac1 => ret[c].ep[1].MacAddress = <<0, 21, 93, 10, 0, 4>>
            /\ CreateResponse(c).GatewayAddress = Gw1 => ret[c].ep[1].Gateways = <<<<10, 0, 0, 1>>>>

C4_Witness ==
    \E c \in Calls :
        /\ pc[c] = "returned" /\ CreateSucceeded(c) /\ AttachSucceeded(c)
        /\ CreateResponse(c).MacAddress = Mac1
        /\ CreateResponse(c).GatewayAddress = Gw1
        /\ ret[c].ep # <<>>
        /\ ret[c].ep[1].HnsId = "ep-1"

\* C5: when the create request fails, newEndpointImpl returns that error at
\* once: the create is its only request (no attach, no delete) and no endpoint
\* is returned.
C5_CreateFailureReturnsAtOnce ==
    \A c \in Calls :
        CreateFailed(c) =>
            /\ Len(ProvisionLog(c)) = 1
            /\ pc[c] = "returned"
            /\ ret[c] = [ep |-> <<>>, err |-> RequestsOf(c, "POST")[1].result]

C5_Witness ==
    \E c \in Calls :
        /\ pc[c] = "returned" /\ CreateFailed(c)
        /\ ret[c].err \in CreateErrors

\* C6: a returned newEndpointImpl has a record exactly when create and attach
\* both succeeded, exactly when its error is nil; the record names the endpoint
\* that was created and attached; a malformed gateway or MAC string of the
\* response leaves that field nil and the record is still returned.
C6_RecordIffCreatedAndAttached ==
    \A c \in Calls :
        pc[c] = "returned" =>
            /\ ret[c].ep # <<>> <=> (CreateSucceeded(c) /\ AttachSucceeded(c))
            /\ ret[c].ep # <<>> <=> ret[c].err = NoErr
            /\ ret[c].ep # <<>> =>
                  /\ ret[c].ep[1].HnsId = RequestsOf(c, "ATTACH")[1].id
                  /\ ret[c].ep[1].HnsId = CreateResponse(c).Id
                  /\ CreateResponse(c).GatewayAddress \in MalformedGateways
                        => ret[c].ep[1].Gateways = <<Nil>>
                  /\ CreateResponse(c).MacAddress \in MalformedMacs
                        => ret[c].ep[1].MacAddress = Nil

C6_Witness ==
    \E c \in Calls :
        /\ pc[c] = "returned" /\ AttachSucceeded(c)
        /\ CreateResponse(c).GatewayAddress = GwOutOfRange
        /\ CreateResponse(c).MacAddress = MacBadDigit
        /\ ret[c].ep # <<>>
        /\ ret[c].ep[1].MacAddress = Nil

\* the reference of C7, computed without strings.Split
FirstEight(s) == [i \in 1..(IF Len(s) < 8 THEN Len(s) ELSE 8) |-> s[i]]
Colons(s) == {i \in 1..Len(s) : s[i] = ":"}
AfterColon(s) == LET k == CHOOSE i \in Colons(s) : TRUE IN [i \in 1..(Len(s) - k) |-> s[k + i]]
ReferenceEndpointID(containerID, netNsPath, ifName) ==
    IF Cardinality(Colons(netNsPath)) = 1
    THEN <<FirstEight(AfterColon(netNsPath)) \o <<"-">> \o ifName,
           FirstEight(containerID) \o <<"-">> \o ifName>>
    ELSE <<FirstEight(containerID) \o <<"-">> \o ifName, <<>>>>

\* C7: ConstructEndpointID agrees with the reference on every input: the
\* linking form exactly when the path has one ':', the plain form otherwise.
C7_ConstructEndpointIDReference ==
    cidResult # <<>> =>
        cidResult[1] = ReferenceEndpointID(cidArgs.ContainerID, cidArgs.NetNsPath, cidArgs.IfName)

C7_Witness ==
    /\ cidResult # <<>>
    /\ Cardinality(Colons(cidArgs.NetNsPath)) = 2
    /\ Len(cidArgs.ContainerID) > 8
    /\ cidResult[1] = <<Prefix(IdChars, 8) \o <<"-">> \o Eth0, <<>>>>

\* C8: building the descriptor never fails on the number of addresses; with no
\* address (list unset or empty) it carries no IP and prefix, with one or more
\* it carries the first address's IP and prefix length.
C8_DescriptorFirstAddress ==
    \A c \in Calls :
        (pc[c] \notin {"idle", "start"} /\ panicMsg[c] # "interface conversion") =>
            /\ panicMsg[c] = ""
            /\ hnsEndpoint[c] # <<>>
            /\ LET addrs == epInfo[c].IPAddresses.elems
                   d == hnsEndpoint[c][1]
               IN  IF Len(addrs) = 0
                   THEN d.IPAddress = Nil /\ d.PrefixLength = 0
                   ELSE d.IPAddress = addrs[1].IP /\ d.PrefixLength = MaskSize(addrs[1].Mask)

\* C9: the VLAN tag is the integer under "VlanID" if there is one and 0 in every
\* other case (no vendor data, no such key, a value of another type), and the
\* call goes on to the create request instead of crashing.
C9_VlanDefaultsToZero ==
    \A c \in Calls :
        pc[c] \notin {"idle", "start"} =>
            /\ panicMsg[c] # "interface conversion"
            /\ LET d == epInfo[c].Data
               IN  vlanid[c] = IF ~d.isNil /\ d.m[VlanIDKey].type = "int"
                               THEN d.m[VlanIDKey].v ELSE 0

\* C10: each deleteEndpointImpl invocation sends exactly one request, a DELETE
\* for the record's HnsId, returns that request's outcome unchanged, and
\* leaves the record as it was.
C10_DeprovisionOneDelete ==
    [][\A c \in Calls :
          delCalls'[c] # delCalls[c] =>
              /\ Len(reqlog') = Len(reqlog) + 1
              /\ SubSeq(reqlog', 1, Len(reqlog)) = reqlog
              /\ reqlog'[Len(reqlog')].verb = "DELETE"
              /\ reqlog'[Len(reqlog')].fn = "deleteEndpointImpl"
              /\ reqlog'[Len(reqlog')].id = ret[c].ep[1].HnsId
              /\ delRet'[c] = reqlog'[Len(reqlog')].result
              /\ ret'[c] = ret[c]]_vars

C10_Witness ==
    \E c \in Calls :
        /\ delCalls[c] = 2
        /\ delRet[c] = NoErr
        /\ reqlog[Len(reqlog) - 1].fn = "deleteEndpointImpl"
        /\ reqlog[Len(reqlog) - 1].result \in DeleteErrors
        /\ ret[c].ep # <<>>

\* the requests deleteEndpointImpl invocations on call c's record issued
DeprovisionLog(c) == SelectSeq(reqlog, LAMBDA r : r.call = c /\ r.fn = "deleteEndpointImpl")

\* C16: no retries: one newEndpointImpl invocation issues its requests in the
\* order create, attach, delete, each at most once, the attach only after a
\* successful create and the delete only after a failed attach; the
\* deleteEndpointImpl invocations issued one DELETE each.
C16_AtMostOnceInOrder ==
    \A c \in Calls :
        LET log == ProvisionLog(c)
        IN  /\ Len(log) <= 3
            /\ Len(log) >= 1 => log[1].verb = "POST"
            /\ Len(log) >= 2 => log[2].verb = "ATTACH" /\ log[1].result = NoErr
            /\ Len(log) >= 3 => log[3].verb = "DELETE" /\ log[2].result # NoErr
            /\ Len(DeprovisionLog(c)) = delCalls[c]
            /\ \A i \in 1..Len(DeprovisionLog(c)) : DeprovisionLog(c)[i].verb = "DELETE"

C16_Witness ==
    \E c \in Calls :
        /\ pc[c] = "returned"
        /\ Len(ProvisionLog(c)) = 3
        /\ ProvisionLog(c)[3].verb = "DELETE"
        /\ ProvisionLog(c)[3].result \in DeleteErrors

\* C19: getInfoImpl sets the key "hnsid" of the target's Data to the record's
\* HnsId and nothing else: every other key keeps its value, the record is
\* unchanged and no request reaches the subsystem.
C19_GetInfoAdditive ==
    /\ [](\A c \in Calls :
            infoPc[c] = "done" =>
                /\ ~infoTarget[c].data.isNil
                /\ infoTarget[c].data.m[HnsIdKey] = StringValue(ret[c].ep[1].HnsId)
                /\ \A k \in DataKeys \ {HnsIdKey} :
                      infoTarget[c].data.m[k] = infoTarget[c].arg.m[k])
    /\ [][\A c \in Calls :
             infoPc'[c] # infoPc[c] => reqlog' = reqlog /\ hns' = hns /\ ret' = ret]_vars

C19_Witness ==
    \E c \in Calls :
        /\ infoPc[c] = "done"
        /\ infoTarget[c].arg.m[HnsIdKey] = StringValue("stale")
        /\ infoTarget[c].arg.m[VlanIDKey] = AnyValue("int", 7)
        /\ infoTarget[c].data.m[HnsIdKey] = StringValue("ep-1")
        /\ delCalls[c] = 0

-----------------------------------------------------------------------------
(* Concurrent newEndpointImpl invocations for different endpoints *)

\* the endpoint specification of call c: its own container
ConcInfo(c) == [PlainInfo EXCEPT !.ContainerID = Prefix(IdChars, c + 2)]

InitConc ==
    /\ InitCall({ConcInfo(c) : c \in Calls}, Calls)
    /\ \A c \in Calls : epInfo[c] = ConcInfo(c)
    /\ hnsAddrs = {<<Mac1, Gw1>>}
    /\ cidArgs = NoDirectCall
    /\ cidResult = <<>>
    /\ InfoInit
    /\ ListenerInit("tcp", "")
    /\ DecodeInit({NoBody})

NextConc == \E c \in Calls : Build(c) \/ Create(c) \/ Attach(c) \/ Deferred(c)

SpecConc == InitConc /\ [][NextConc]_vars

\* the result call c has when it runs alone and its own requests have the
\* outcomes the subsystem gave them
AloneResult(c) ==
    IF Len(ProvisionLog(c)) = 0 THEN [ep |-> <<>>, err |-> err[c]]
    ELSE IF CreateFailed(c) THEN [ep |-> <<>>, err |-> RequestsOf(c, "POST")[1].result]
    ELSE IF AttachFailed(c) THEN [ep |-> <<>>, err |-> RequestsOf(c, "ATTACH")[1].result]
    ELSE [ep |-> <<NewEndpointRecord(
                      epInfo[c],
                      ConstructEndpointID(epInfo[c].ContainerID, epInfo[c].NetNsPath,
                                          epInfo[c].IfName)[1],
                      CreateResponse(c),
                      ExtractVlanID(epInfo[c].Data).vlanid)>>,
          err |-> NoErr]

\* C17: under every interleaving, a returned call has the result it has
\* alone, its attach and its rollback DELETE name the identifier its own create
\* returned, and never the identifier another call's create returned.
C17_ConcurrentCallsIndependent ==
    \A c \in Calls :
        /\ pc[c] = "returned" =>
              /\ ret[c] = AloneResult(c)
              /\ Len(ProvisionLog(c)) = 0 => ret[c].err \in MarshalErrors
        /\ \A i \in 1..Len(ProvisionLog(c)) :
              ProvisionLog(c)[i].verb \in {"ATTACH", "DELETE"} =>
                  /\ ProvisionLog(c)[i].id = CreateResponse(c).Id
                  /\ \A d \in Calls \ {c} :
                        CreateSucceeded(d) => ProvisionLog(c)[i].id # CreateResponse(d).Id

C17_Witness ==
    \E c \in Calls, d \in Calls :
        /\ c # d
        /\ pc[c] = "returned" /\ pc[d] = "returned"
        /\ AttachFailed(c) /\ AttachSucceeded(d) /\ ret[d].ep # <<>>
        /\ \E i \in 1..Len(reqlog), j \in 1..Len(reqlog), k \in 1..Len(reqlog) :
              /\ i < j /\ j < k
              /\ reqlog[i].call = c /\ reqlog[i].verb = "POST"
              /\ reqlog[j].call = d /\ reqlog[j].verb = "POST"
              /\ reqlog[k].call = c /\ reqlog[k].verb = "DELETE"

-----------------------------------------------------------------------------
(* Listener: Start, Stop, AddHandler and the serving goroutine *)

MaxStarts == 2      \* Start calls
MaxStops == 2       \* Stop calls
MaxRequests == 1    \* requests dispatched

BindErrors == {"ErrBind"}
AcceptErrors == {"ErrAccept"}
ClosedError == "ErrClosed"
ServeErrors == AcceptErrors \cup {ClosedError}

NilDeref == "nil pointer dereference"
DuplicatePattern == "multiple registrations"

Op(op, arg, result) == [op |-> op, arg |-> arg, result |-> result]

\* net.Listen succeeds only on an address no open socket holds; it can fail on any
ListenOutcomes(addr) ==
    IF \E i \in 1..Len(sockets) : sockets[i].addr = addr /\ sockets[i].open
    THEN BindErrors
    ELSE {NoErr} \cup BindErrors

\* line 49: listener.l, err = net.Listen(...): l is assigned in both cases,
\* nil when the bind failed
ListenerAfterListen(sock, e) == IF e = NoErr THEN sock ELSE 0

StartReturn_Swallow(e) == NoErr

\* lines 50-53 and 62: what Start returns after net.Listen
StartReturn(e) == e

ServeSends_Drop(e) == <<>>

\* line 59: errChan <- http.Serve(...): what the goroutine sends
ServeSends(e) == <<e>>

ServeHandler_Snapshot(startMux, nowMux) == startMux

\* line 59: http.Serve is handed the *http.ServeMux, so it routes with the
\* router as it is now, not as it was when Start ran
ServeHandler(startMux, nowMux) == nowMux

StopRemoves_Always(proto) == TRUE

\* line 77: the socket file is removed for the unix protocol only
StopRemoves(proto) == proto = "unix"

\* lines 41-63
Start ==
    /\ lpanic = ""
    /\ Len(startRet) < MaxStarts
    /\ IF localAddress = ""
       THEN /\ startRet' = Append(startRet, NoErr)
            /\ UNCHANGED <<l, sockets, files, serve, oplog>>
       ELSE \E e \in ListenOutcomes(localAddress) :
               LET sock == Len(sockets) + 1
               IN  /\ oplog' = Append(oplog, Op("listen", localAddress, e))
                   /\ l' = ListenerAfterListen(sock, e)
                   /\ startRet' = Append(startRet, StartReturn(e))
                   /\ IF e = NoErr
                      THEN /\ sockets' = Append(sockets, [addr |-> localAddress, open |-> TRUE])
                           /\ files' = IF protocol = "unix" THEN files \cup {localAddress}
                                       ELSE files
                           /\ serve' = Append(serve, [state |-> "serving", err |-> NoErr,
                                                      startMux |-> mux,
                                                      start |-> Len(startRet) + 1])
                      ELSE UNCHANGED <<sockets, files, serve>>
    /\ UNCHANGED <<addrArg, protocol, localAddress, mux, errChan, stopCalls, lpanic, requests>>
    /\ UNCHANGED <<callVars, cidArgs, cidResult, infoVars, hnsAddrs, dvars>>

\* line 73: closing a closed socket returns an error
CloseResult(isOpen) == IF isOpen THEN NoErr ELSE ClosedError

\* line 77: removing a file that is not there returns an error
NotExistError == "ErrNotExist"
RemoveResult(exists) == IF exists THEN NoErr ELSE NotExistError

\* lines 66-82; l.Close() on a nil l panics; closing twice and removing a
\* missing file only return errors, which Stop ignores
Stop ==
    /\ lpanic = ""
    /\ stopCalls < MaxStops
    /\ IF localAddress = ""
       THEN /\ stopCalls' = stopCalls + 1
            /\ UNCHANGED <<sockets, files, oplog, lpanic>>
       ELSE IF l = 0
       THEN /\ lpanic' = NilDeref
            /\ UNCHANGED <<sockets, files, oplog, stopCalls>>
       ELSE /\ stopCalls' = stopCalls + 1
            /\ sockets' = [sockets EXCEPT ![l].open = FALSE]
            /\ IF StopRemoves(protocol)
               THEN /\ oplog' = oplog \o <<Op("close", l, CloseResult(sockets[l].open)),
                                           Op("remove", localAddress,
                                              RemoveResult(localAddress \in files))>>
                    /\ files' = files \ {localAddress}
               ELSE /\ oplog' = Append(oplog, Op("close", l, CloseResult(sockets[l].open)))
                    /\ files' = files
            /\ UNCHANGED lpanic
    /\ UNCHANGED <<addrArg, protocol, localAddress, l, mux, serve, errChan, startRet, requests>>
    /\ UNCHANGED <<callVars, cidArgs, cidResult, infoVars, hnsAddrs, dvars>>

\* lines 90-92; http.ServeMux.HandleFunc panics on a path registered before
AddHandler(path, handler) ==
    /\ lpanic = ""
    /\ IF mux[path] # NoHandler
       THEN lpanic' = DuplicatePattern /\ mux' = mux
       ELSE mux' = [mux EXCEPT ![path] = handler] /\ lpanic' = lpanic
    /\ UNCHANGED <<addrArg, protocol, localAddress, l, sockets, files, serve, errChan, oplog,
                   startRet, stopCalls, requests>>
    /\ UNCHANGED <<callVars, cidArgs, cidResult, infoVars, hnsAddrs, dvars>>

\* line 59: http.Serve returns, with the accept error that ended it or because
\* its socket was closed; it closes the socket on its way out; the goroutine
\* then blocks sending the error on errChan
ServeReturn(i) ==
    /\ lpanic = ""
    /\ i \in 1..Len(serve)
    /\ serve[i].state = "serving"
    /\ \E e \in (IF sockets[i].open THEN AcceptErrors ELSE {ClosedError}) :
          serve' = [serve EXCEPT ![i] = [@ EXCEPT !.err = e,
                                                  !.state = IF ServeSends(e) = <<>>
                                                            THEN "dropped" ELSE "sending"]]
    /\ sockets' = [sockets EXCEPT ![i].open = FALSE]
    /\ UNCHANGED <<addrArg, protocol, localAddress, l, mux, files, errChan, oplog, startRet,
                   stopCalls, lpanic, requests>>
    /\ UNCHANGED <<callVars, cidArgs, cidResult, infoVars, hnsAddrs, dvars>>

\* the owner receives from errChan, which completes a pending send
Receive(i) ==
    /\ lpanic = ""
    /\ i \in 1..Len(serve)
    /\ serve[i].state = "sending"
    /\ errChan' = errChan \o ServeSends(serve[i].err)
    /\ serve' = [serve EXCEPT ![i].state = "delivered"]
    /\ UNCHANGED <<addrArg, protocol, localAddress, l, mux, sockets, files, oplog, startRet,
                   stopCalls, lpanic, requests>>
    /\ UNCHANGED <<callVars, cidArgs, cidResult, infoVars, hnsAddrs, dvars>>

\* line 59: a serving loop accepts a request for path and routes it
Dispatch(i, path) ==
    /\ lpanic = ""
    /\ i \in 1..Len(serve)
    /\ serve[i].state = "serving"
    /\ sockets[i].open
    /\ Len(requests) < MaxRequests
    /\ requests' = Append(requests, [path |-> path, via |-> i, state |-> "inflight",
                                     handler |-> ServeHandler(serve[i].startMux, mux)[path]])
    /\ UNCHANGED <<addrArg, protocol, localAddress, l, mux, sockets, files, serve, errChan,
                   oplog, startRet, stopCalls, lpanic>>
    /\ UNCHANGED <<callVars, cidArgs, cidResult, infoVars, hnsAddrs, dvars>>

\* the handler of a dispatched request returns
Finish(k) ==
    /\ lpanic = ""
    /\ k \in 1..Len(requests)
    /\ requests[k].state = "inflight"
    /\ requests' = [requests EXCEPT ![k].state = "done"]
    /\ UNCHANGED <<addrArg, protocol, localAddress, l, mux, sockets, files, serve, errChan,
                   oplog, startRet, stopCalls, lpanic>>
    /\ UNCHANGED <<callVars, cidArgs, cidResult, infoVars, hnsAddrs, dvars>>

\* the registrations the owner makes: each path has its own handler
Registrations == {<<"/a", "hA">>, <<"/b", "hB">>}

Protocols == {"unix", "tcp"}
Addresses == {"", "/run/cnm"}

InitL ==
    /\ \E proto \in Protocols, addr \in Addresses : ListenerInit(proto, addr)
    /\ InitCall({PlainInfo}, {})
    /\ hnsAddrs = {}
    /\ cidArgs = NoDirectCall
    /\ cidResult = <<>>
    /\ InfoInit
    /\ DecodeInit({NoBody})

\* the listener's life: Start and Stop calls, the serving goroutines ending
\* and the owner receiving from errChan
NextL ==
    \/ Start
    \/ Stop
    \/ \E i \in 1..MaxStarts : ServeReturn(i) \/ Receive(i)

SpecL == InitL /\ [][NextL]_vars

\* the listener serving: Start and Stop calls, handlers being registered,
\* requests being dispatched by the serving loops and handled
NextServe ==
    \/ Start
    \/ Stop
    \/ \E reg \in Registrations : AddHandler(reg[1], reg[2])
    \/ \E i \in 1..MaxStarts, path \in Paths : Dispatch(i, path)
    \/ \E k \in 1..MaxRequests : Finish(k)

SpecServe == InitL /\ [][NextServe]_vars

-----------------------------------------------------------------------------
(* Properties of the listener *)

Listens == SelectSeq(oplog, LAMBDA o : o.op = "listen")

\* the listener is Listening: l names a socket that is open
Listening == l # 0 /\ sockets[l].open

\* the errors sent on errChan: received, or held by a goroutine blocked sending
SentOnErrChan ==
    {errChan[k] : k \in 1..Len(errChan)} \cup
    {serve[i].err : i \in {j \in 1..Len(serve) : serve[j].state = "sending"}}

\* C11: a listener constructed with an empty address keeps an empty address
\* for every protocol; its Start calls return nil and its Start and Stop calls
\* perform no socket or file operation, start no goroutine and send nothing.
C11_EmptyAddressDisabled ==
    addrArg = "" =>
        /\ localAddress = ""
        /\ oplog = <<>>
        /\ sockets = <<>>
        /\ files = {}
        /\ serve = <<>>
        /\ SentOnErrChan = {}
        /\ lpanic = ""
        /\ \A k \in 1..Len(startRet) : startRet[k] = NoErr

C11_Witness ==
    /\ addrArg = ""
    /\ protocol = "unix"
    /\ Len(startRet) >= 1
    /\ stopCalls = 2
    /\ oplog = <<>>

\* C12: a Start that bound its address has returned nil while its serving
\* loop runs on; when the loop ends, its error goes to errChan (held by the
\* blocked send, then received) and no Start ever returns it.
C12_ServeErrorOnChannel ==
    /\ \A i \in 1..Len(serve) :
          /\ serve[i].start <= Len(startRet)
          /\ startRet[serve[i].start] = NoErr
          /\ serve[i].state \in {"serving", "sending", "delivered"}
          /\ serve[i].state # "serving" =>
                /\ serve[i].err \in ServeErrors
                /\ serve[i].err \in SentOnErrChan
    /\ Len(errChan) = Cardinality({i \in 1..Len(serve) : serve[i].state = "delivered"})
    /\ \A k \in 1..Len(startRet) : startRet[k] \notin ServeErrors

C12_Witness ==
    /\ Len(serve) >= 1
    /\ serve[1].state = "delivered"
    /\ serve[1].err = ClosedError
    /\ errChan = <<ClosedError>>
    /\ startRet[1] = NoErr
    /\ stopCalls >= 1

\* C13 as stated: the error of a Start that failed to bind is sent on errChan.
C13_BindErrorOnChannel ==
    \A k \in 1..Len(startRet) : startRet[k] # NoErr => startRet[k] \in SentOnErrChan

\* C13 amended: the error of a Start that failed to bind is the return value of
\* that Start, and nothing but the serving loops' errors is sent on errChan.
C13_BindErrorReturned ==
    localAddress # "" =>
        /\ Len(Listens) = Len(startRet)
        /\ \A k \in 1..Len(startRet) : startRet[k] = Listens[k].result
        /\ SentOnErrChan \cap BindErrors = {}
        /\ SentOnErrChan \subseteq ServeErrors

C13_Witness ==
    /\ localAddress # ""
    /\ Len(startRet) >= 1
    /\ startRet[1] \in BindErrors
    /\ Listens[1].result \in BindErrors
    /\ SentOnErrChan = {}

\* C14: a Stop on a Listening listener closes the socket l names and, for the
\* unix protocol, removes the file at the suffixed address, and these are all
\* its operations; for tcp no file is touched; requests in flight stay in
\* flight.
C14_StopClosesAndRemoves ==
    [][(stopCalls' # stopCalls /\ Listening) =>
          /\ ~sockets'[l].open
          /\ l' = l
          /\ requests' = requests
          /\ IF protocol = "unix"
             THEN /\ oplog' = oplog \o <<Op("close", l, NoErr),
                                         Op("remove", addrArg \o SockSuffix, NoErr)>>
                  /\ (addrArg \o SockSuffix) \notin files'
             ELSE /\ oplog' = Append(oplog, Op("close", l, NoErr))
                  /\ files' = files]_vars

C14_Witness ==
    /\ protocol = "unix"
    /\ stopCalls = 1
    /\ l # 0
    /\ ~sockets[l].open
    /\ files = {}
    /\ oplog[Len(oplog)] = Op("remove", "/run/cnm.sock", NoErr)
    /\ \E k \in 1..Len(requests) : requests[k].state = "inflight"

\* C18: a request is routed with the router as it is when the request is
\* dispatched, so a handler registered after Start serves the later requests
\* to its path; a registration never changes the handler of another path.
C18_RegistrationSeenByServing ==
    /\ [][Len(requests') > Len(requests) =>
             requests'[Len(requests')].handler = mux[requests'[Len(requests')].path]]_vars
    /\ [][\A p \in Paths : mux[p] # NoHandler => mux'[p] = mux[p]]_vars

C18_Witness ==
    \E k \in 1..Len(requests) :
        /\ requests[k].path = "/b"
        /\ requests[k].handler = "hB"
        /\ serve[requests[k].via].startMux["/b"] = NoHandler
        /\ serve[requests[k].via].startMux["/a"] = "hA"
        /\ mux["/a"] = "hA"

\* C20: with a configured address, no Stop dereferences a nil l, and l names
\* the socket a Start bound for as long as that socket is open and served.
C20_StopSafe ==
    localAddress # "" =>
        /\ lpanic # NilDeref
        /\ \A i \in 1..Len(sockets) : sockets[i].open => l = i

-----------------------------------------------------------------------------
(* Listener.Decode and Listener.SendError (listener.go lines 95-109, 122-124).
   A request body is a sequence of JSON tokens; the request value the handler
   passes is a struct, as the handlers of this protocol pass. *)

MaxBodyLen == 5

Tokens == {"{", "}", ":", "s", "n"}

RECURSIVE SeqsUpTo(_, _)
SeqsUpTo(S, n) ==
    IF n = 0 THEN {<<>>}
    ELSE LET shorter == SeqsUpTo(S, n - 1)
         IN  shorter \cup {Append(q, t) : q \in {r \in shorter : Len(r) = n - 1}, t \in S}

Bodies == {NoBody} \cup {BodyOf(toks) : toks \in SeqsUpTo(Tokens, MaxBodyLen)}

\* the errors of Decode
ErrBodyEmpty == "Request body is empty"
ErrEOF == "EOF"
ErrUnexpectedEOF == "unexpected EOF"
ErrSyntax == "invalid character"
ErrUnmarshalType == "json: cannot unmarshal into Go value"
DecodeErrors == {ErrBodyEmpty, ErrEOF, ErrUnexpectedEOF, ErrSyntax, ErrUnmarshalType}

Scanned(r, kind, next) == [r |-> r, kind |-> kind, next |-> next]

\* encoding/json's scanner on the value that starts at toks[i]: "s" a string
\* literal, "n" a number, an object with no member or one member
RECURSIVE ScanValue(_, _)
ScanValue(toks, i) ==
    IF i > Len(toks) THEN Scanned(ErrUnexpectedEOF, "", i)
    ELSE IF toks[i] = "s" THEN Scanned(NoErr, "string", i + 1)
    ELSE IF toks[i] = "n" THEN Scanned(NoErr, "number", i + 1)
    ELSE IF toks[i] # "{" THEN Scanned(ErrSyntax, "", i)
    ELSE IF i + 1 > Len(toks) THEN Scanned(ErrUnexpectedEOF, "", i + 1)
    ELSE IF toks[i + 1] = "}" THEN Scanned(NoErr, "object", i + 2)
    ELSE IF toks[i + 1] # "s" THEN Scanned(ErrSyntax, "", i + 1)
    ELSE IF i + 2 > Len(toks) THEN Scanned(ErrUnexpectedEOF, "", i + 2)
    ELSE IF toks[i + 2] # ":" THEN Scanned(ErrSyntax, "", i + 2)
    ELSE LET v == ScanValue(toks, i + 3)
         IN  IF v.r # NoErr THEN v
             ELSE IF v.next > Len(toks) THEN Scanned(ErrUnexpectedEOF, "", v.next)
             ELSE IF toks[v.next] # "}" THEN Scanned(ErrSyntax, "", v.next)
             ELSE Scanned(NoErr, "object", v.next + 1)

\* line 102: json.NewDecoder(r.Body).Decode(request) reads the first JSON value
\* of the stream and leaves what follows it unread; only an object fits the
\* request struct
JsonDecode(toks) ==
    IF toks = <<>> THEN ErrEOF
    ELSE LET v == ScanValue(toks, 1)
         IN  IF v.r # NoErr THEN v.r
             ELSE IF v.kind # "object" THEN ErrUnmarshalType
             ELSE NoErr

\* lines 98-103
DecodeError(body) == IF body.isNil THEN ErrBodyEmpty ELSE JsonDecode(body.toks)

TextPlain == "text/plain; charset=utf-8"
StatusOK == 200
StatusBadRequest == 400

Quote(str) == "\"" \o str \o "\""

\* json.NewEncoder(w).Encode(map[string]string{"Err": msg}): the envelope
Envelope(msg) == <<"{", Quote("Err"), ":", Quote(msg), "}", "\n">>

\* http.Error(w, msg, code): the message as a line of plain text
HttpError_Envelope(msg, code) ==
    [status |-> code, contentType |-> TextPlain, body |-> Envelope(msg)]

HttpError(msg, code) ==
    [status |-> code, contentType |-> TextPlain, body |-> <<msg, "\n">>]

DecodeFailed == "Failed to decode request: "

\* lines 95-109
Decode ==
    /\ decRet = <<>>
    /\ decW = NoWrite
    /\ LET e == DecodeError(decBody)
       IN  /\ decRet' = <<e>>
           /\ decW' = IF e # NoErr THEN HttpError(DecodeFailed \o e, StatusBadRequest)
                      ELSE decW
    /\ UNCHANGED decBody
    /\ UNCHANGED <<callVars, cidArgs, cidResult, infoVars, hnsAddrs, lvars>>

ErrMessages == {"not found", "bad request"}

\* lines 122-124: the first write makes the status 200 and, no Content-Type
\* being set, net/http sniffs the body, which is text
SendError(errMessage) ==
    /\ decRet = <<>>
    /\ decW = NoWrite
    /\ decW' = [status |-> StatusOK, contentType |-> TextPlain, body |-> Envelope(errMessage)]
    /\ UNCHANGED <<decBody, decRet>>
    /\ UNCHANGED <<callVars, cidArgs, cidResult, infoVars, hnsAddrs, lvars>>

InitDecode ==
    /\ DecodeInit(Bodies)
    /\ InitCall({PlainInfo}, {})
    /\ hnsAddrs = {}
    /\ cidArgs = NoDirectCall
    /\ cidResult = <<>>
    /\ InfoInit
    /\ ListenerInit("tcp", "")

NextDecode ==
    \/ Decode
    \/ \E errMessage \in ErrMessages : SendError(errMessage)

SpecDecode == InitDecode /\ [][NextDecode]_vars

\* a response body is the {"Err": message} envelope
IsErrEnvelope(body) ==
    /\ Len(body) = 6
    /\ <<body[1], body[2], body[3], body[5]>> = <<"{", Quote("Err"), ":", "}">>

\* the JSON objects of the token alphabet, by the number of nested members
RECURSIVE ObjectTexts(_)
ObjectTexts(depth) ==
    IF depth = 0 THEN {<<"{", "}">>}
    ELSE LET inner == ObjectTexts(depth - 1) \cup {<<"s">>, <<"n">>}
         IN  ObjectTexts(depth - 1) \cup {<<"{", "s", ":">> \o v \o <<"}">> : v \in inner}

\* the body starts with a JSON object
StartsWithObject(toks) ==
    \E o \in ObjectTexts(MaxBodyLen) :
        Len(o) <= Len(toks) /\ SubSeq(toks, 1, Len(o)) = o

Decoded == decRet # <<>>

====
